---- MODULE Spec2Model ----
(***************************************************************************)
(* A model of Tracy (src/main.rs, src/ray.rs, src/material/*.rs,           *)
(* src/lib.rs).                                                            *)
(*                                                                         *)
(* Part 1 models the render thread (fn render), its rayon row workers, the *)
(* crossbeam channel and the consumer loop of fn main.                     *)
(* Later parts model the pure numeric functions over exact rationals.      *)
(***************************************************************************)
EXTENDS Integers, Sequences, FiniteSets, Bags, TLC

VARIABLES
    rowPc,              \* j -> position of the closure of row j (main.rs:156-201)
    rowCol,             \* j -> column i the row's inner for_each is at
    rowResult,          \* j -> `result` of the last Pixel send of the row
    rowCount,           \* j -> `count` of the last fetch_add of the row
    pixel_count,        \* the shared AtomicU32 (main.rs:154)
    chan,               \* messages in flight in the crossbeam channel
    connected,          \* the Receiver `r` has not been dropped
    renderPc,           \* "par" while the rows run, "done" once Done was sent
    mainPc,             \* position of main's loop: "events", "drain", "exited"
    window_open,        \* window.is_open()
    pixels_rendered,    \* main.rs:57
    rendering_complete, \* main.rs:58
    texture,            \* the coordinates texture.update_from_pixels was given
    pixelSends,         \* history: <<i, j>> -> number of Pixel sends made for it
    delivered,          \* history: bag of the <<x, y>> of the Pixel messages enqueued
    failedSends,        \* history: number of Pixel sends that returned Err
    progressSends,      \* history: bag of the counts c of the Progress(c) sends made
    received,           \* history: number of Pixel messages main has taken
    fn,                 \* the numeric function being called, "none" while rendering
    args,               \* the arguments of that call
    ret,                \* what the call returned
    callPc              \* "idle", "called" before the call runs, "returned" after

vars == << rowPc, rowCol, rowResult, rowCount, pixel_count, chan, connected,
           renderPc, mainPc, window_open, pixels_rendered, rendering_complete,
           texture, pixelSends, delivered, failedSends, progressSends, received,
           fn, args, ret, callPc >>

pureVars == << fn, args, ret, callPc >>

(***************************************************************************)
(* Image constants.  The program renders 240 x 160 and reports progress    *)
(* every 100 pixels; the model keeps the formulas and scales the numbers.  *)
(***************************************************************************)
IMAGE_WIDTH == 3

AspectNum == 3

AspectDen == 2

\* (IMAGE_WIDTH as f64 / ASPECT_RATIO) as u32: the quotient truncated
IMAGE_HEIGHT == (IMAGE_WIDTH * AspectDen) \div AspectNum

\* `count % 100 == 0`: the period of the Progress messages
ProgressEvery == 2

\* threads of the rayon pool that run rows at the same time
NumThreads == 2

total_pixels == IMAGE_WIDTH * IMAGE_HEIGHT

Rows == 0 .. (IMAGE_HEIGHT - 1)

Cols == 0 .. (IMAGE_WIDTH - 1)

\* Pixel.x of the message for column i (main.rs:168)
PixelX(i) == i

\* Pixel.y of the message for row j (main.rs:169)
PixelY(j) == IMAGE_HEIGHT - j

\* a slip that takes the column for the row: `y: IMAGE_HEIGHT - i`
PixelMsgColumnForRow(i, j) == [type |-> "Pixel", x |-> PixelX(i), y |-> PixelY(i)]

\* RenderMessage::Pixel(Pixel { x: i, y: IMAGE_HEIGHT - j, .. }) (main.rs:167-188);
\* the colour is left out, no operation of the channel or of the loop reads it
PixelMsg(i, j) == [type |-> "Pixel", x |-> PixelX(i), y |-> PixelY(j)]

ProgressMsg(c) == [type |-> "Progress", count |-> c]

DoneMsg == [type |-> "Done"]

\* a channel made with bounded(1): a send waits while a message is queued
BoundedHasRoom(q) == Len(q) < 1

\* unbounded(): a send never waits for room
ChannelHasRoom(q) == TRUE

\* Sender::send can complete: it waits only while the channel is connected and full
CanSend == connected => ChannelHasRoom(chan)

\* the channel after send(msg): enqueued if a receiver exists, dropped (Err) if not
Enqueue(msg) == IF connected THEN Append(chan, msg) ELSE chan

\* an inner loop that a failed send ends: no later column of the row is run
NextColumnStopOnErr(i, result) == IF result = "err" THEN IMAGE_WIDTH ELSE i + 1

\* the column the inner for_each runs after column i: the `return` of
\* main.rs:197-199 leaves only the closure of pixel i, so the iteration goes on
NextColumn(i, result) == i + 1

\* fetch_add(1) + 1; the u32 never wraps, one increment is made per pixel
FetchAdd(c) == c + 1

Running == {j \in Rows : rowPc[j] \in {"send", "add", "progress"}}

RenderInit ==
    /\ rowPc = [j \in Rows |-> "todo"]
    /\ rowCol = [j \in Rows |-> 0]
    /\ rowResult = [j \in Rows |-> "ok"]
    /\ rowCount = [j \in Rows |-> 0]
    /\ pixel_count = 0
    /\ chan = << >>
    /\ connected = TRUE
    /\ renderPc = "par"
    /\ mainPc = "events"
    /\ window_open = TRUE
    /\ pixels_rendered = 0
    /\ rendering_complete = FALSE
    /\ texture = {}
    /\ pixelSends = [p \in Cols \X Rows |-> 0]
    /\ delivered = EmptyBag
    /\ failedSends = 0
    /\ progressSends = EmptyBag
    /\ received = 0

mainVars == << mainPc, window_open, pixels_rendered, rendering_complete,
               texture, received >>

\* a pool thread takes row j of the parallel iterator (main.rs:156)
StartRow(j) ==
    /\ renderPc = "par"
    /\ rowPc[j] = "todo"
    /\ Cardinality(Running) < NumThreads
    /\ rowPc' = [rowPc EXCEPT ![j] = IF IMAGE_WIDTH > 0 THEN "send" ELSE "done"]
    /\ UNCHANGED << rowCol, rowResult, rowCount, pixel_count, chan, connected,
                    renderPc, pixelSends, delivered, failedSends, progressSends >>
    /\ UNCHANGED << mainVars, pureVars >>

\* the samples of pixel (i, j) are summed and the Pixel is sent (main.rs:158-188)
SendPixel(j) ==
    /\ rowPc[j] = "send"
    /\ CanSend
    /\ LET i == rowCol[j]
           msg == PixelMsg(i, j) IN
        /\ chan' = Enqueue(msg)
        /\ rowResult' = [rowResult EXCEPT ![j] = IF connected THEN "ok" ELSE "err"]
        /\ pixelSends' = [pixelSends EXCEPT ![<<i, j>>] = @ + 1]
        /\ delivered' = IF connected
                          THEN delivered (+) SetToBag({<< msg.x, msg.y >>})
                          ELSE delivered
        /\ failedSends' = IF connected THEN failedSends ELSE failedSends + 1
    /\ rowPc' = [rowPc EXCEPT ![j] = "add"]
    /\ UNCHANGED << rowCol, rowCount, pixel_count, connected, renderPc, progressSends >>
    /\ UNCHANGED << mainVars, pureVars >>

\* the position after the body of pixel i of row j has ended
AfterPixel(j) ==
    LET n == NextColumn(rowCol[j], rowResult[j]) IN
        /\ rowCol' = [rowCol EXCEPT ![j] = n]
        /\ rowPc' = [rowPc EXCEPT ![j] = IF n < IMAGE_WIDTH THEN "send" ELSE "done"]

\* let count = pixel_count.fetch_add(1, Relaxed) + 1 (main.rs:191-192)
CountPixel(j) ==
    /\ rowPc[j] = "add"
    /\ pixel_count' = FetchAdd(pixel_count)
    /\ rowCount' = [rowCount EXCEPT ![j] = FetchAdd(pixel_count)]
    /\ IF FetchAdd(pixel_count) % ProgressEvery = 0
         THEN /\ rowPc' = [rowPc EXCEPT ![j] = "progress"]
              /\ UNCHANGED rowCol
         ELSE AfterPixel(j)
    /\ UNCHANGED << rowResult, chan, connected, renderPc, pixelSends, delivered,
                    failedSends, progressSends >>
    /\ UNCHANGED << mainVars, pureVars >>

\* let _ = s.send(Progress(count)), then the is_err check (main.rs:193-199)
SendProgress(j) ==
    /\ rowPc[j] = "progress"
    /\ CanSend
    /\ chan' = Enqueue(ProgressMsg(rowCount[j]))
    /\ progressSends' = progressSends (+) SetToBag({rowCount[j]})
    /\ AfterPixel(j)
    /\ UNCHANGED << rowResult, rowCount, pixel_count, connected, renderPc,
                    pixelSends, delivered, failedSends >>
    /\ UNCHANGED << mainVars, pureVars >>

\* a render that does not wait for the rows: Done is sent while rows still run
SendDoneEarly ==
    /\ renderPc = "par"
    /\ CanSend
    /\ chan' = Enqueue(DoneMsg)
    /\ renderPc' = "done"
    /\ UNCHANGED << rowPc, rowCol, rowResult, rowCount, pixel_count, connected,
                    pixelSends, delivered, failedSends, progressSends >>
    /\ UNCHANGED << mainVars, pureVars >>

\* for_each has joined every row; let _ = s.send(Done) (main.rs:201-204)
SendDone ==
    /\ renderPc = "par"
    /\ \A j \in Rows : rowPc[j] = "done"
    /\ CanSend
    /\ chan' = Enqueue(DoneMsg)
    /\ renderPc' = "done"
    /\ UNCHANGED << rowPc, rowCol, rowResult, rowCount, pixel_count, connected,
                    pixelSends, delivered, failedSends, progressSends >>
    /\ UNCHANGED << mainVars, pureVars >>

renderVars == << rowPc, rowCol, rowResult, rowCount, pixel_count, renderPc,
                 pixelSends, delivered, failedSends, progressSends >>

\* the event loop of one iteration: Event::Closed closes the window (main.rs:62-67)
PollEvents ==
    /\ mainPc = "events"
    /\ \E closed \in BOOLEAN : window_open' = (window_open /\ ~closed)
    /\ mainPc' = "drain"
    /\ UNCHANGED << pixels_rendered, rendering_complete, texture, received,
                    chan, connected >>
    /\ UNCHANGED << renderVars, pureVars >>

\* a consumer that adds the Progress count to its own count of Pixel messages
HandleAddsProgress(msg) ==
    /\ pixels_rendered' =
         IF msg.type = "Pixel" THEN pixels_rendered + 1
         ELSE IF msg.type = "Progress" THEN pixels_rendered + msg.count
         ELSE pixels_rendered
    /\ texture' = IF msg.type = "Pixel" THEN texture \cup {<< msg.x, msg.y >>}
                  ELSE texture
    /\ received' = IF msg.type = "Pixel" THEN received + 1 ELSE received
    /\ rendering_complete' = (rendering_complete \/ msg.type = "Done")

\* the state of the consumer after `match msg` (main.rs:71-85)
Handle(msg) ==
    /\ pixels_rendered' =
         IF msg.type = "Pixel" THEN pixels_rendered + 1
         ELSE IF msg.type = "Progress" THEN msg.count
         ELSE pixels_rendered
    /\ texture' = IF msg.type = "Pixel" THEN texture \cup {<< msg.x, msg.y >>}
                  ELSE texture
    /\ received' = IF msg.type = "Pixel" THEN received + 1 ELSE received
    /\ rendering_complete' = (rendering_complete \/ msg.type = "Done")

\* one turn of `while let Ok(msg) = r.try_recv()` (main.rs:70)
Recv ==
    /\ mainPc = "drain"
    /\ chan # << >>
    /\ Handle(Head(chan))
    /\ chan' = Tail(chan)
    /\ UNCHANGED << mainPc, window_open, connected >>
    /\ UNCHANGED << renderVars, pureVars >>

\* try_recv finds the channel empty; the frame is drawn and `while
\* window.is_open()` is tested; when it fails main returns and drops `r` (the
\* last local declared, so the first dropped) while the render thread still runs
EndDrain ==
    /\ mainPc = "drain"
    /\ chan = << >>
    /\ mainPc' = IF window_open THEN "events" ELSE "exited"
    /\ connected' = window_open
    /\ UNCHANGED << window_open, pixels_rendered, rendering_complete, texture,
                    received, chan >>
    /\ UNCHANGED << renderVars, pureVars >>

RowStep == \E j \in Rows : StartRow(j) \/ SendPixel(j) \/ CountPixel(j) \/ SendProgress(j)

RenderNext == RowStep \/ SendDone

MainNext == PollEvents \/ Recv \/ EndDrain

(***************************************************************************)
(* Exact rational arithmetic.  The program computes in f64; the model      *)
(* computes the same expressions over rationals << n, d >> (d > 0, lowest  *)
(* terms) and draws its inputs from grids on which every square root the   *)
(* code takes is itself rational, so no rounding is involved.              *)
(***************************************************************************)
Abs(n) == IF n < 0 THEN -n ELSE n

RECURSIVE GCD(_, _)
GCD(a, b) == IF b = 0 THEN a ELSE GCD(b, a % b)

Norm(n, d) ==
    LET g == GCD(Abs(n), Abs(d))
        sgn == IF d < 0 THEN -1 ELSE 1
    IN  << (sgn * n) \div g, (sgn * d) \div g >>

Rat(n, d) == Norm(n, d)

RInt(n) == << n, 1 >>

RNeg(p) == << -p[1], p[2] >>

RAdd(p, q) ==
    LET g == GCD(p[2], q[2])
        l == (p[2] \div g) * q[2]
    IN  Norm(p[1] * (l \div p[2]) + q[1] * (l \div q[2]), l)

RSub(p, q) == RAdd(p, RNeg(q))

RMul(p, q) ==
    LET g1 == GCD(Abs(p[1]), q[2])
        g2 == GCD(Abs(q[1]), p[2])
    IN  Norm((p[1] \div g1) * (q[1] \div g2), (p[2] \div g2) * (q[2] \div g1))

\* p / q for q # 0 (the inputs keep the code away from a division by zero)
RDiv(p, q) == RMul(p, Norm(q[2], q[1]))

RLt(p, q) == RSub(p, q)[1] < 0

RLe(p, q) == RSub(p, q)[1] <= 0

RMin(p, q) == IF RLt(q, p) THEN q ELSE p

RAbs(p) == << Abs(p[1]), p[2] >>

\* the integer square root of n >= 0, rounded down, by bisection of lo .. hi
RECURSIVE SqrtSearch(_, _, _)
SqrtSearch(n, lo, hi) ==
    IF hi - lo <= 1 THEN lo
    ELSE LET mid == (lo + hi) \div 2 IN
         IF mid <= n \div mid THEN SqrtSearch(n, mid, hi) ELSE SqrtSearch(n, lo, mid)

ISqrt(n) == IF n <= 0 THEN 0 ELSE SqrtSearch(n, 1, n + 1)

IsSquare(n) == n >= 0 /\ ISqrt(n) * ISqrt(n) = n

\* the rationals whose f64::sqrt is rational
SqrtExact(p) == IsSquare(p[1]) /\ IsSquare(p[2])

\* f64::sqrt: exact on the squares, which is where the inputs of the model keep
\* it; on any other rational the root is rounded down to a multiple of 1/100
RSqrt(p) ==
    IF SqrtExact(p) THEN << ISqrt(p[1]), ISqrt(p[2]) >>
    ELSE Norm(ISqrt((Abs(p[1]) * 10000) \div p[2]), 100)

\* f64::powi(p, n), n >= 0
RECURSIVE RPowi(_, _)
RPowi(p, n) == IF n = 0 THEN RInt(1) ELSE RMul(p, RPowi(p, n - 1))

(***************************************************************************)
(* Vec3 (src/lib.rs): a vector is << x, y, z >> of rationals.              *)
(***************************************************************************)
Vec3(x, y, z) == << x, y, z >>

\* a vector given by integer numerators over a common denominator
VecOver(a, b, c, d) == Vec3(Rat(a, d), Rat(b, d), Rat(c, d))

VAdd(u, v) == Vec3(RAdd(u[1], v[1]), RAdd(u[2], v[2]), RAdd(u[3], v[3]))

VSub(u, v) == Vec3(RSub(u[1], v[1]), RSub(u[2], v[2]), RSub(u[3], v[3]))

VNeg(u) == Vec3(RNeg(u[1]), RNeg(u[2]), RNeg(u[3]))

\* impl Mul<f64> for Vec3
VScale(u, r) == Vec3(RMul(u[1], r), RMul(u[2], r), RMul(u[3], r))

dot(u, v) == RAdd(RAdd(RMul(u[1], v[1]), RMul(u[2], v[2])), RMul(u[3], v[3]))

length_squared(u) == dot(u, u)

length(u) == RSqrt(length_squared(u))

\* Self::new(self[0]/length, self[1]/length, self[2]/length)
unit_vector(u) ==
    LET l == length(u) IN Vec3(RDiv(u[1], l), RDiv(u[2], l), RDiv(u[3], l))

\* a reflection that subtracts the normal component once: the projection on
\* the surface, v - n * dot(v, n)
ReflectOnce(v, n) == VSub(v, VScale(n, dot(v, n)))

\* *self - normal * self.dot(normal) * 2.0
reflect(v, n) == VSub(v, VScale(VScale(n, dot(v, n)), RInt(2)))

(***************************************************************************)
(* Ray (src/ray.rs): a ray is [origin, direction].                         *)
(***************************************************************************)
Ray(o, d) == [origin |-> o, direction |-> d]

at(r, t) == VAdd(r.origin, VScale(r.direction, t))

\* the discriminant b*b - 4ac of hit_sphere
Discriminant(r, center, radius) ==
    LET oc == VSub(r.origin, center)
        a == dot(r.direction, r.direction)
        b == RMul(dot(oc, r.direction), RInt(2))
        c == RSub(dot(oc, oc), RMul(radius, radius))
    IN  RSub(RMul(b, b), RMul(RMul(RInt(4), a), c))

\* Ray::hit_sphere: -1.0 on a negative discriminant, else (-b - sqrt(disc)) / 2a
hit_sphere(r, center, radius) ==
    LET oc == VSub(r.origin, center)
        a == dot(r.direction, r.direction)
        b == RMul(dot(oc, r.direction), RInt(2))
        discriminant == Discriminant(r, center, radius)
    IN  IF RLt(discriminant, RInt(0))
          THEN RInt(-1)
          ELSE RDiv(RSub(RNeg(b), RSqrt(discriminant)), RMul(RInt(2), a))

\* the sphere Ray::color tests: centre (0, 0, -1), radius 0.5
SphereCenter == VecOver(0, 0, -1, 1)

SphereRadius == Rat(1, 2)

Black == VecOver(0, 0, 0, 1)

White == VecOver(1, 1, 1, 1)

Blue == VecOver(5, 7, 10, 10)

\* Ray::color: the colour of the sphere's normal on a hit (t > 0.0), the
\* white-to-blue gradient of the sky otherwise.
RayColor(r) ==
    LET t == hit_sphere(r, SphereCenter, SphereRadius) IN
    IF RLt(RInt(0), t)
      THEN LET n == unit_vector(VSub(at(r, t), SphereCenter)) IN
           VScale(Vec3(RAdd(n[1], RInt(1)), RAdd(n[2], RInt(1)), RAdd(n[3], RInt(1))),
                  Rat(1, 2))
      ELSE LET unit_direction == unit_vector(r.direction)
               s == RMul(Rat(1, 2), RAdd(unit_direction[2], RInt(1)))
           IN  VAdd(VScale(White, RSub(RInt(1), s)), VScale(Blue, s))

\* what `ray.color(&world, MAX_DEPTH)` (main.rs:163) gets from Ray::color: the
\* colour, whether the sphere was reported hit and at which t; Ray::color has
\* no depth parameter and does not recurse, so no bounce is ever made
Trace(r, depth) ==
    LET t == hit_sphere(r, SphereCenter, SphereRadius) IN
    [color |-> RayColor(r), hit |-> RLt(RInt(0), t), t |-> t, bounces |-> 0]

\* rays: origins and directions on a grid of halves in the plane x = 0
GridMax == 2

MaxDepthArg == 2

Grid == (0 - GridMax) .. GridMax

TraceRays ==
    { r \in { Ray(VecOver(0, oy, oz, 2), VecOver(0, dy, dz, 1)) :
                oy \in Grid, oz \in Grid, dy \in -1 .. 1, dz \in -1 .. 1 } :
        /\ r.direction # Black
        /\ SqrtExact(length_squared(r.direction))
        /\ LET disc == Discriminant(r, SphereCenter, SphereRadius) IN
             RLt(disc, RInt(0)) \/ SqrtExact(disc) }

PureIdle ==
    /\ fn = "none"
    /\ args = << >>
    /\ ret = << >>
    /\ callPc = "idle"

CallTrace ==
    /\ fn = "trace"
    /\ callPc = "called"
    /\ ret' = Trace(args.ray, args.depth)
    /\ callPc' = "returned"
    /\ UNCHANGED << fn, args >>
    /\ UNCHANGED << renderVars, mainVars, chan, connected >>

(***************************************************************************)
(* Dielectric (src/material/dielectric.rs).  A hit record is               *)
(* [p, normal, front_face]; the normal is a unit vector.                   *)
(***************************************************************************)
\* Dielectric::reflectance: Schlick's approximation
reflectance(cosine, ref_idx) ==
    LET r == RDiv(RSub(RInt(1), ref_idx), RAdd(RInt(1), ref_idx))
        r0 == RMul(r, r)
    IN  RAdd(r0, RMul(RSub(RInt(1), r0), RPowi(RSub(RInt(1), cosine), 5)))

\* 1.0 / index_of_refraction on the front face, index_of_refraction on the back
RefractionRatio(index, rec) ==
    IF rec.front_face THEN RDiv(RInt(1), index) ELSE index

\* f64::min((-unit_direction).dot(rec.normal), 1.0)
CosTheta(direction, rec) ==
    RMin(dot(VNeg(unit_vector(direction)), rec.normal), RInt(1))

\* f64::sqrt(1.0 - cos_theta * cos_theta)
SinTheta(direction, rec) ==
    LET c == CosTheta(direction, rec) IN RSqrt(RSub(RInt(1), RMul(c, c)))

\* Vec3::refract(uv, n, etai_over_etat), which src/lib.rs does not hold: the
\* perpendicular part is eta * (uv + cos_theta * n), the parallel part is
\* -sqrt(|1 - |perp|^2|) * n (Snell's law)
refract(uv, n, etai_over_etat) ==
    LET cos_theta == RMin(dot(VNeg(uv), n), RInt(1))
        r_out_perp == VScale(VAdd(uv, VScale(n, cos_theta)), etai_over_etat)
        r_out_parallel ==
            VScale(n, RNeg(RSqrt(RAbs(RSub(RInt(1), length_squared(r_out_perp))))))
    IN  VAdd(r_out_perp, r_out_parallel)

\* a scatter that consults only the Schlick draw and never tests for total
\* internal reflection
DielectricScatterNoTirTest(index, direction, rec, rnd) ==
    LET refraction_ratio == RefractionRatio(index, rec)
        unit_direction == unit_vector(direction)
        cos_theta == CosTheta(direction, rec)
        sin_theta == SinTheta(direction, rec)
        cannot_refract == RLt(RInt(1), RMul(refraction_ratio, sin_theta))
        reflects == RLt(rnd, reflectance(cos_theta, refraction_ratio))
    IN  [ ok |-> TRUE,
          cannot_refract |-> cannot_refract,
          branch |-> IF reflects THEN "reflect" ELSE "refract",
          attenuation |-> White,
          scattered |-> Ray(rec.p,
                            IF reflects
                              THEN reflect(unit_direction, rec.normal)
                              ELSE refract(unit_direction, rec.normal, refraction_ratio)) ]

\* Dielectric::scatter, rnd being the value random_float() returns; the result
\* holds the return value (ok), the two out-parameters and the branch taken
DielectricScatter(index, direction, rec, rnd) ==
    LET refraction_ratio == RefractionRatio(index, rec)
        unit_direction == unit_vector(direction)
        cos_theta == CosTheta(direction, rec)
        sin_theta == SinTheta(direction, rec)
        cannot_refract == RLt(RInt(1), RMul(refraction_ratio, sin_theta))
        reflects == cannot_refract \/ RLt(rnd, reflectance(cos_theta, refraction_ratio))
    IN  [ ok |-> TRUE,
          cannot_refract |-> cannot_refract,
          branch |-> IF reflects THEN "reflect" ELSE "refract",
          attenuation |-> White,
          scattered |-> Ray(rec.p,
                            IF reflects
                              THEN reflect(unit_direction, rec.normal)
                              ELSE refract(unit_direction, rec.normal, refraction_ratio)) ]

\* incident directions: the integer vectors of the plane z = 0 with components
\* up to DirMax whose length is an integer (so that unit_vector is exact)
DirMax == 4

Directions ==
    { d \in { VecOver(x, y, 0, 1) : x \in (0 - DirMax) .. DirMax,
                                    y \in (0 - DirMax) .. DirMax } :
        d # Black /\ SqrtExact(length_squared(d)) }

\* unit normals
Normals == { unit_vector(d) : d \in Directions }

\* random_float() returns a value of [0, 1): the multiples of 1/RandomSteps
RandomSteps == 4

RandomFloats == { Rat(k, RandomSteps) : k \in 0 .. (RandomSteps - 1) }

\* indices of refraction: none (1), water (4/3), glass (3/2, the program's), 5/3
Indices == { Rat(1, 1), Rat(4, 3), Rat(3, 2), Rat(5, 3) }

\* hit records as a Hittable makes them (its code is not in src/): the stored
\* normal opposes the ray, and a ray that grazes the surface is not front-facing
HitRecords(direction) ==
    { rec \in [p : {Black}, normal : Normals, front_face : BOOLEAN] :
        /\ RLe(dot(direction, rec.normal), RInt(0))
        /\ dot(direction, rec.normal) = RInt(0) => ~rec.front_face }

\* sin_theta is rational, and refract's square root is rational unless total
\* internal reflection keeps the ray from refract
DielectricExact(index, direction, rec) ==
    LET c == CosTheta(direction, rec)
        rs == RMul(RefractionRatio(index, rec), SinTheta(direction, rec))
    IN  /\ SqrtExact(RSub(RInt(1), RMul(c, c)))
        /\ RLt(RInt(1), rs) \/ SqrtExact(RSub(RInt(1), RMul(rs, rs)))

DielectricArgs ==
    { a \in [index : Indices, direction : Directions,
             rec : [p : {Black}, normal : Normals, front_face : BOOLEAN],
             rnd : RandomFloats] :
        /\ a.rec \in HitRecords(a.direction)
        /\ DielectricExact(a.index, a.direction, a.rec) }

CallDielectricScatter ==
    /\ fn = "dielectric_scatter"
    /\ callPc = "called"
    /\ ret' = DielectricScatter(args.index, args.direction, args.rec, args.rnd)
    /\ callPc' = "returned"
    /\ UNCHANGED << fn, args >>
    /\ UNCHANGED << renderVars, mainVars, chan, connected >>

(***************************************************************************)
(* Metal (src/material/metal.rs).                                          *)
(***************************************************************************)
\* Metal::new: the fuzz stored is f64::min(fuzz, 1.0)
MetalNew(albedo, fuzz) == [albedo |-> albedo, fuzz |-> RMin(fuzz, RInt(1))]

\* fuzz arguments: the halves from -FuzzMax/2 to FuzzMax/2
FuzzMax == 4

FuzzArgs == { Rat(k, 2) : k \in (0 - FuzzMax) .. FuzzMax }

Albedos == { VecOver(8, 6, 2, 10), VecOver(7, 6, 5, 10) }

CallMetalNew ==
    /\ fn = "metal_new"
    /\ callPc = "called"
    /\ ret' = MetalNew(args.albedo, args.fuzz)
    /\ callPc' = "returned"
    /\ UNCHANGED << fn, args >>
    /\ UNCHANGED << renderVars, mainVars, chan, connected >>

\* a scatter that forgets the factor fuzz: reflected + random_in_unit_sphere()
MetalScatterUnscaled(metal, direction, rec, sample) ==
    LET reflected == reflect(unit_vector(direction), rec.normal)
        scattered == Ray(rec.p, VAdd(reflected, sample))
    IN  IF RLt(RInt(0), dot(scattered.direction, rec.normal))
          THEN [some |-> TRUE, scattered |-> scattered, attenuation |-> metal.albedo]
          ELSE [some |-> FALSE]

\* Metal::scatter, sample being the value Vec3::random_in_unit_sphere() returns:
\* Some((scattered, albedo)) or None
MetalScatter(metal, direction, rec, sample) ==
    LET reflected == reflect(unit_vector(direction), rec.normal)
        scattered == Ray(rec.p, VAdd(reflected, VScale(sample, metal.fuzz)))
    IN  IF RLt(RInt(0), dot(scattered.direction, rec.normal))
          THEN [some |-> TRUE, scattered |-> scattered, attenuation |-> metal.albedo]
          ELSE [some |-> FALSE]

\* values of Vec3::random_in_unit_sphere(): points of the grid of halves whose
\* squared length is below 1
UnitBallSamples ==
    { p \in { VecOver(x, y, z, 2) : x \in -1 .. 1, y \in -1 .. 1, z \in -1 .. 1 } :
        /\ RLt(length_squared(p), RInt(1))
        /\ p[3] = RInt(0) \/ (p[1] = RInt(0) /\ p[2] = RInt(0)) }

\* the metals scattered on: mirror-smooth (fuzz 0) and fuzz 1/2
Metals == { MetalNew(VecOver(8, 6, 2, 10), f) : f \in {Rat(0, 1), Rat(1, 2)} }

\* incident rays of Metal::scatter: unit directions and directions of length 5
MetalDirections == { d \in Directions : length_squared(d) \in {RInt(1), RInt(25)} }

MetalArgs ==
    { a \in [metal : Metals, direction : MetalDirections,
             rec : [p : {Black}, normal : Normals, front_face : BOOLEAN]] :
        /\ a.rec \in HitRecords(a.direction)
        /\ a.rec.front_face = RLt(dot(a.direction, a.rec.normal), RInt(0)) }

\* Metal::scatter is called, up to twice on the same metal, ray and hit record,
\* each call drawing its own sample; ret lists the samples and the outcomes
CallMetalScatter ==
    /\ fn = "metal_scatter"
    /\ Len(ret) < 2
    /\ \E sample \in UnitBallSamples :
          ret' = Append(ret, [sample |-> sample,
                              outcome |-> MetalScatter(args.metal, args.direction,
                                                       args.rec, sample)])
    /\ callPc' = "returned"
    /\ UNCHANGED << fn, args >>
    /\ UNCHANGED << renderVars, mainVars, chan, connected >>

\* const S: f64 = 1e-8 of Vec3::near_zero
S == Rat(1, 100000000)

\* Vec3::near_zero: every component is below S in absolute value
near_zero(v) ==
    /\ RLt(RAbs(v[1]), S)
    /\ RLt(RAbs(v[2]), S)
    /\ RLt(RAbs(v[3]), S)

\* a scatter that keeps normal + random_unit_vector() whatever its size
LambertianScatterNoFallback(albedo, rec, random_unit) ==
    [ok |-> TRUE,
     scattered |-> Ray(rec.p, VAdd(rec.normal, random_unit)),
     attenuation |-> albedo]

\* Lambertian::scatter, random_unit being the value Vec3::random_unit_vector()
\* returns: the returned bool with the two out-parameters
LambertianScatter(albedo, rec, random_unit) ==
    LET sum == VAdd(rec.normal, random_unit)
        scatter_direction == IF near_zero(sum) THEN rec.normal ELSE sum
    IN  [ok |-> TRUE,
         scattered |-> Ray(rec.p, scatter_direction),
         attenuation |-> albedo]

\* values of Vec3::random_unit_vector()
RandomUnitVectors ==
    { VecOver(1, 0, 0, 1), VecOver(-1, 0, 0, 1), VecOver(0, 0, 1, 1),
      VecOver(0, 0, -1, 1), VecOver(3, 4, 0, 5), VecOver(-4, -3, 0, 5) }

\* offsets around the threshold S: half of S, S itself, and their negations
Offsets ==
    { Vec3(x, y, z) : x \in { RInt(0), Rat(1, 200000000), Rat(-1, 200000000), S },
                      y \in { RInt(0), Rat(1, 200000000), RNeg(S) },
                      z \in { RInt(0), S } }

\* hit normals of Lambertian::scatter: the zero vector, and unit vectors moved
\* by an offset, so that normal + random lands on both sides of the threshold
LambertianNormals ==
    { Black } \cup { VAdd(u, e) : u \in RandomUnitVectors, e \in Offsets }

LambertianArgs ==
    [albedo : Albedos, rec : [p : {Black}, normal : LambertianNormals],
     random_unit : RandomUnitVectors]

CallLambertianScatter ==
    /\ fn = "lambertian_scatter"
    /\ callPc = "called"
    /\ ret' = LambertianScatter(args.albedo, args.rec, args.random_unit)
    /\ callPc' = "returned"
    /\ UNCHANGED << fn, args >>
    /\ UNCHANGED << renderVars, mainVars, chan, connected >>

\* vectors reflected: the integer grid
ReflectVectors == { VecOver(x, y, z, 1) : x \in Grid, y \in Grid, z \in Grid }

\* normals reflected on: unit vectors in and out of the plane z = 0, and one
\* vector of squared length 2
ReflectNormals ==
    Normals \cup { VecOver(0, 0, 1, 1), VecOver(1, 2, 2, 3), VecOver(-2, 6, 3, 7),
                   VecOver(1, 1, 0, 1) }

\* Vec3::reflect is applied to v, then to its own result, with the same normal;
\* ret lists the results
CallReflect ==
    /\ fn = "reflect"
    /\ Len(ret) < 2
    /\ ret' = Append(ret, reflect(IF ret = << >> THEN args.v ELSE ret[Len(ret)],
                                  args.n))
    /\ callPc' = "returned"
    /\ UNCHANGED << fn, args >>
    /\ UNCHANGED << renderVars, mainVars, chan, connected >>

Init == RenderInit /\ PureIdle

Next == RenderNext \/ MainNext

Spec == Init /\ [][Next]_vars

\* the pool threads and the render thread are scheduled fairly; nothing is
\* assumed of the consumer
FairSpec == Spec /\ WF_vars(RenderNext)

\* a call of one of the numeric functions, on arguments drawn from the grids
PureInit ==
    /\ RenderInit
    /\ callPc = "called"
    /\ ret = << >>
    /\ \/ /\ fn = "trace"
          /\ args \in [ray : TraceRays, depth : -1 .. MaxDepthArg]
       \/ /\ fn = "dielectric_scatter"
          /\ args \in DielectricArgs
       \/ /\ fn = "metal_new"
          /\ args \in [albedo : Albedos, fuzz : FuzzArgs]
       \/ /\ fn = "metal_scatter"
          /\ args \in MetalArgs
       \/ /\ fn = "lambertian_scatter"
          /\ args \in LambertianArgs
       \/ /\ fn = "reflect"
          /\ args \in [v : ReflectVectors, n : ReflectNormals]

PureNext ==
    \/ CallTrace
    \/ CallDielectricScatter
    \/ CallMetalNew
    \/ CallMetalScatter
    \/ CallLambertianScatter
    \/ CallReflect

PureSpec == PureInit /\ [][PureNext]_vars

(***************************************************************************)
(* Claims about the render workers, the channel and the consumer.          *)
(***************************************************************************)

\* C1: every Pixel message render emits carries 0-based in-range coordinates,
\* 0 <= x < IMAGE_WIDTH and 0 <= y < IMAGE_HEIGHT.
C1_PixelCoordinatesInRange ==
    \A c \in BagToSet(delivered) :
        /\ 0 <= c[1] /\ c[1] < IMAGE_WIDTH
        /\ 0 <= c[2] /\ c[2] < IMAGE_HEIGHT

\* C2: once a Pixel send has failed (the receiver is gone), no further Pixel
\* send is attempted for the remaining pixels of the image.
C2_NoSendAfterFailedSend ==
    [][failedSends > 0 => pixelSends' = pixelSends]_vars

\* C3: no send ever waits for the consumer, and under fair scheduling of the
\* workers the render reaches the point where it has sent Done, whatever the
\* consumer does.
C3_RenderNeverBlocked ==
    /\ [](renderPc = "par" => CanSend)
    /\ <>(renderPc = "done")

\* C3 witness: the render has sent Done although the consumer took no message at
\* all, every result still being queued
C3_Witness ==
    /\ renderPc = "done"
    /\ connected
    /\ received = 0
    /\ pixels_rendered = 0
    /\ Len(chan) > total_pixels

\* C4: with the window kept open, once the consumer has processed Done its
\* pixels_rendered equals IMAGE_WIDTH * IMAGE_HEIGHT.
C4_ProgressEventuallyExact ==
    (rendering_complete /\ window_open) => pixels_rendered = total_pixels

\* C5: with the channel open, exactly one Pixel message is sent for each (i, j)
\* of the grid and no two Pixel messages carry the same (x, y), so the consumer
\* places the same set of results whatever the order of arrival.
C5_OnePixelPerCoordinate ==
    /\ \A p \in Cols \X Rows : pixelSends[p] <= 1
    /\ \A c \in BagToSet(delivered) : CopiesIn(c, delivered) = 1
    /\ (renderPc = "done" /\ failedSends = 0) =>
          /\ \A p \in Cols \X Rows : pixelSends[p] = 1
          /\ BagCardinality(delivered) = total_pixels
    /\ (rendering_complete /\ failedSends = 0) =>
          /\ texture = BagToSet(delivered)
          /\ Cardinality(texture) = total_pixels

\* C5 witness: the rows ran interleaved (the queue holds a Pixel of one row
\* between two Pixels of another), no send failed, and every Pixel of the grid
\* has been sent
C5_Witness ==
    /\ renderPc = "done"
    /\ failedSends = 0
    /\ BagCardinality(delivered) = total_pixels
    /\ \E a, b, c \in 1 .. Len(chan) :
          /\ a < b /\ b < c
          /\ chan[a].type = "Pixel" /\ chan[b].type = "Pixel" /\ chan[c].type = "Pixel"
          /\ chan[a].y = chan[c].y
          /\ chan[b].y # chan[a].y

(***************************************************************************)
(* Claims about Ray::color and Ray::hit_sphere.                            *)
(***************************************************************************)

\* C6: trace with depth <= 0 returns exactly black whatever the ray and the
\* scene, and a trace started with depth d >= 0 makes at most d scatter bounces.
C6_DepthBudgetBoundsTrace ==
    (fn = "trace" /\ callPc = "returned") =>
        /\ args.depth <= 0 => ret.color = Black
        /\ args.depth >= 0 => ret.bounces <= args.depth

\* the two roots of the sphere quadratic of ray r, smaller first
SphereRoots(r) ==
    LET oc == VSub(r.origin, SphereCenter)
        a == dot(r.direction, r.direction)
        b == RMul(dot(oc, r.direction), RInt(2))
        sq == RSqrt(Discriminant(r, SphereCenter, SphereRadius))
    IN  << RDiv(RSub(RNeg(b), sq), RMul(RInt(2), a)),
           RDiv(RAdd(RNeg(b), sq), RMul(RInt(2), a)) >>

\* C7: when the discriminant is >= 0 the sphere intersection reports the smaller
\* root if it lies in (t_min, t_max), otherwise the larger root if that one does,
\* and no hit only if neither does (here t_min = 0 and t_max is unbounded, the
\* range Ray::color accepts); a ray from inside the sphere hits at the larger root.
C7_SphereRootSelection ==
    (fn = "trace" /\ callPc = "returned"
        /\ ~RLt(Discriminant(args.ray, SphereCenter, SphereRadius), RInt(0))) =>
        LET roots == SphereRoots(args.ray) IN
            IF RLt(RInt(0), roots[1]) THEN ret.hit /\ ret.t = roots[1]
            ELSE IF RLt(RInt(0), roots[2]) THEN ret.hit /\ ret.t = roots[2]
            ELSE ~ret.hit

(***************************************************************************)
(* Claims about the materials.                                             *)
(***************************************************************************)

\* C8: a Dielectric with index_of_refraction = 1.0 always refracts straight
\* through: for every hit, incident direction and random draw, scatter takes the
\* refract branch, cannot_refract is false and the scattered direction is the
\* unit incident direction.
C8_UnitIndexRefractsStraight ==
    (fn = "dielectric_scatter" /\ callPc = "returned" /\ args.index = RInt(1)) =>
        /\ ret.branch = "refract"
        /\ ~ret.cannot_refract
        /\ ret.scattered.direction = unit_vector(args.direction)

\* C9: refract is invoked only when refraction_ratio * sin_theta <= 1.0; when
\* refraction_ratio * sin_theta > 1.0 the scattered direction is the reflection;
\* and scatter always returns a scattered ray.
C9_TotalInternalReflectionDiverted ==
    (fn = "dielectric_scatter" /\ callPc = "returned") =>
        LET rs == RMul(RefractionRatio(args.index, args.rec),
                       SinTheta(args.direction, args.rec))
        IN  /\ ret.branch = "refract" => RLe(rs, RInt(1))
            /\ RLt(RInt(1), rs) =>
                  /\ ret.branch = "reflect"
                  /\ ret.scattered.direction =
                        reflect(unit_vector(args.direction), args.rec.normal)
            /\ ret.ok
            /\ ret.scattered.origin = args.rec.p

\* C9 witness: a back-face hit beyond the critical angle whose random draw is not
\* below the Schlick reflectance, and which is reflected all the same
C9_Witness ==
    /\ fn = "dielectric_scatter" /\ callPc = "returned"
    /\ ~args.rec.front_face
    /\ RLt(RInt(1), RMul(RefractionRatio(args.index, args.rec),
                         SinTheta(args.direction, args.rec)))
    /\ RLe(reflectance(CosTheta(args.direction, args.rec),
                       RefractionRatio(args.index, args.rec)), args.rnd)
    /\ ret.branch = "reflect"
    /\ ret.ok

\* C10: for every fuzz passed to Metal::new, values above 1 and negative values
\* included, the stored fuzz satisfies 0 <= fuzz <= 1.
C10_MetalFuzzClamped ==
    (fn = "metal_new" /\ callPc = "returned") =>
        RLe(RInt(0), ret.fuzz) /\ RLe(ret.fuzz, RInt(1))

\* C11: Metal with fuzz = 0 is deterministic: for the same incident ray and hit
\* record, scatter returns the same outcome (the same scattered ray and
\* attenuation, or the same absorption) whatever unit-ball sample it draws.
C11_SmoothMetalDeterministic ==
    (fn = "metal_scatter" /\ args.metal.fuzz = RInt(0)) =>
        \A a, b \in 1 .. Len(ret) : ret[a].outcome = ret[b].outcome

\* C11 witness: two calls on a fuzz-0 metal drew different samples and both
\* returned the same scattered ray
C11_Witness ==
    /\ fn = "metal_scatter"
    /\ args.metal.fuzz = RInt(0)
    /\ Len(ret) = 2
    /\ ret[1].sample # ret[2].sample
    /\ ret[1].outcome.some
    /\ ret[2].outcome = ret[1].outcome

\* C12: Lambertian never produces a degenerate scatter direction: for every hit
\* record whose normal is not near zero and every random unit vector, the
\* scattered direction is not near zero (it is the normal itself when
\* normal + random is near zero), the scatter is accepted, and the attenuation
\* is the albedo.
C12_LambertianNeverDegenerate ==
    (/\ fn = "lambertian_scatter"
     /\ callPc = "returned"
     /\ ~near_zero(args.rec.normal)) =>
        /\ ~near_zero(ret.scattered.direction)
        /\ near_zero(VAdd(args.rec.normal, args.random_unit)) =>
              ret.scattered.direction = args.rec.normal
        /\ ret.ok
        /\ ret.attenuation = args.albedo

\* C12 witness: normal + random was near zero without being zero, and the
\* scattered ray left along the normal
C12_Witness ==
    /\ fn = "lambertian_scatter"
    /\ callPc = "returned"
    /\ ~near_zero(args.rec.normal)
    /\ near_zero(VAdd(args.rec.normal, args.random_unit))
    /\ VAdd(args.rec.normal, args.random_unit) # Black
    /\ ret.scattered.direction = args.rec.normal

\* C13: reflection is an involution for a fixed unit normal: for every vector v
\* and every n of length 1, reflect(reflect(v, n), n) = v.
C13_ReflectInvolution ==
    (/\ fn = "reflect"
     /\ Len(ret) = 2
     /\ length_squared(args.n) = RInt(1)) =>
        ret[2] = args.v

\* C13 witness: a vector with a component along a unit normal that is not an
\* axis was moved by the first reflection and restored by the second
C13_Witness ==
    /\ fn = "reflect"
    /\ Len(ret) = 2
    /\ length_squared(args.n) = RInt(1)
    /\ args.n[1] # RInt(0) /\ args.n[2] # RInt(0) /\ args.n[3] # RInt(0)
    /\ ret[1] # args.v
    /\ ret[2] = args.v

\* the positions of Done in the channel
DonePositions == { k \in 1 .. Len(chan) : chan[k].type = "Done" }

\* C14: completion is ordered after all results: Done is sent once, and only
\* after every row has finished its sends; a Done in the channel is the last
\* message there; and when the consumer has set rendering_complete it has
\* received all IMAGE_WIDTH * IMAGE_HEIGHT Pixel messages.
C14_DoneAfterAllResults ==
    /\ renderPc = "done" => \A j \in Rows : rowPc[j] = "done"
    /\ (DonePositions # {} \/ rendering_complete) => renderPc = "done"
    /\ DonePositions \subseteq { Len(chan) }
    /\ rendering_complete => DonePositions = {}
    /\ rendering_complete => received = total_pixels

\* C14 witness: the consumer has taken Done and set rendering_complete, after
\* rows ran interleaved and Progress messages were sent
C14_Witness ==
    /\ rendering_complete
    /\ received = total_pixels
    /\ progressSends # EmptyBag
    /\ connected

\* C15: the consumer never over-reports progress: pixels_rendered is at most
\* the number of Pixel messages the consumer has received so far, and so at
\* most IMAGE_WIDTH * IMAGE_HEIGHT.
C15_ProgressNeverOverReported ==
    /\ pixels_rendered <= received
    /\ pixels_rendered <= total_pixels

\* C15 witness: the consumer has taken a Progress message that set
\* pixels_rendered below the number of Pixel messages it had received
C15_Witness ==
    /\ progressSends # EmptyBag
    /\ 0 < pixels_rendered
    /\ pixels_rendered < received
    /\ \A k \in 1 .. Len(chan) : chan[k].type # "Progress"

\* the pixels of row j that have made their fetch_add
Counted(j) == rowCol[j] + (IF rowPc[j] = "progress" THEN 1 ELSE 0)

RECURSIVE CountedBelow(_)
CountedBelow(n) == IF n = 0 THEN 0 ELSE Counted(n - 1) + CountedBelow(n - 1)

\* the values for which a Progress message is due
ProgressValues == { c \in 1 .. total_pixels : c % ProgressEvery = 0 }

====
